---- MODULE Spec2Model ----
(***************************************************************************)
(* A model of src/road_map.py: the Graph container, its _Vertex objects    *)
(* and the recursive traversals connected, connected_distance,             *)
(* connected_path and shortest_path.                                       *)
(*                                                                         *)
(* A _Vertex is a Python object: two calls of add_vertex with the same     *)
(* item make two different objects.  An object is modelled as the pair     *)
(* <<item, k>>, the k-th vertex object made for that item.  A neighbour    *)
(* set is a Python set of objects hashed by identity; the order in which   *)
(* it is iterated is not fixed by the program, so a traversal is modelled  *)
(* for every iteration order.                                              *)
(***************************************************************************)
EXTENDS Integers, Sequences, FiniteSets, TLC

VARIABLES
    vertices,    \* Graph._vertices: item -> _Vertex object
    neighbours,  \* _Vertex.neighbours of every object made so far
    content,     \* read_file: the lines of the file still to be processed
    ret          \* the last call of the Graph interface and what it returned

vars == <<vertices, neighbours, content, ret>>

\* ---------------------------------------------------------------- bounds
NumItems == 4        \* items are 1..NumItems
MaxObjs == 4         \* _Vertex objects ever made (those replaced included)
MaxEdges == 4        \* edges between objects
MaxD == 3            \* connected_distance is called with d in 0..MaxD, 20 and 21
MaxM == 1            \* connected_path is called with max_depth in -1..MaxM, 20 and 21
ChainLen == 21       \* read_file: the input files hold a chain of ChainLen edges

\* ------------------------------------------------------ program constants
DepthCeiling == 20       \* check_connected: if depth > 20
DefaultMaxDepth == 20    \* check_connected_path: max_depth: int = 20
PathDepthLimit == 20     \* connected_path: if max_depth <= 20
DistanceLimit == 20      \* connected_distance: if d > 20

Items == 1..NumItems

\* _Vertex.item of an object
Item(v) == v[1]

\* The objects made so far (live or replaced).
Objects == DOMAIN neighbours

\* Graph.__init__: self._vertices = {}
EmptyGraph ==
    /\ vertices = <<>>
    /\ neighbours = <<>>

\* No call is in progress and none has returned a value not yet taken.
NoCall ==
    [op |-> "idle", item1 |-> 0, item2 |-> 0, n |-> 0, raised |-> FALSE,
     none |-> FALSE, bool |-> FALSE, path |-> <<>>, pathsNone |-> FALSE, paths |-> <<>>]

\* The object a call _Vertex(item, set()) makes: one never made before.
NewVertex(item) == <<item, Cardinality({o \in Objects : Item(o) = item}) + 1>>

\* The number of edges between objects (a self-loop counts once).
EdgeCount == Cardinality(UNION { { {o, u} : u \in neighbours[o] } : o \in Objects })

\* Graph.add_vertex: self._vertices[item] = _Vertex(item, set()).  An item already
\* present is not refused: its entry is overwritten by the new object, and the
\* old object stays in the neighbour sets that hold it.
AddVertex(item) ==
    /\ ret.op = "idle"
    /\ Cardinality(Objects) < MaxObjs
    /\ vertices' = (item :> NewVertex(item)) @@ vertices
    /\ neighbours' = (NewVertex(item) :> {}) @@ neighbours
    /\ ret' = [NoCall EXCEPT !.op = "add_vertex", !.item1 = item]
    /\ UNCHANGED content

\* neighbours after v1.neighbours.add(v2); v2.neighbours.add(v1)
Linked(v1, v2) ==
    [o \in Objects |-> IF o = v1 /\ o = v2 THEN neighbours[o] \cup {v1}
                       ELSE IF o = v1 THEN neighbours[o] \cup {v2}
                       ELSE IF o = v2 THEN neighbours[o] \cup {v1}
                       ELSE neighbours[o]]

\* add_edge with a slip: a missing endpoint is made a vertex before the raise.
AddEdgeCreating(item1, item2) ==
    /\ ret.op = "idle"
    /\ IF item1 \in DOMAIN vertices /\ item2 \in DOMAIN vertices
       THEN /\ \/ EdgeCount < MaxEdges
               \/ vertices[item2] \in neighbours[vertices[item1]]
            /\ neighbours' = Linked(vertices[item1], vertices[item2])
            /\ ret' = [NoCall EXCEPT !.op = "add_edge", !.item1 = item1,
                                     !.item2 = item2]
            /\ UNCHANGED <<vertices, content>>
       ELSE /\ vertices' = [i \in DOMAIN vertices \cup {item1, item2} |->
                              IF i \in DOMAIN vertices THEN vertices[i]
                              ELSE NewVertex(i)]
            /\ neighbours' = [o \in Objects \cup
                                {NewVertex(i) : i \in {item1, item2} \ DOMAIN vertices} |->
                              IF o \in Objects THEN neighbours[o] ELSE {}]
            /\ ret' = [NoCall EXCEPT !.op = "add_edge", !.item1 = item1,
                                     !.item2 = item2, !.raised = TRUE]
            /\ UNCHANGED content

\* Graph.add_edge: with both items present each vertex joins the other's
\* neighbour set (item1 = item2 is not refused: the vertex joins its own set);
\* otherwise ValueError is raised.
AddEdge(item1, item2) ==
    /\ ret.op = "idle"
    /\ IF item1 \in DOMAIN vertices /\ item2 \in DOMAIN vertices
       THEN /\ \/ EdgeCount < MaxEdges
               \/ vertices[item2] \in neighbours[vertices[item1]]
            /\ neighbours' = Linked(vertices[item1], vertices[item2])
            /\ ret' = [NoCall EXCEPT !.op = "add_edge", !.item1 = item1,
                                     !.item2 = item2]
            /\ UNCHANGED <<vertices, content>>
       ELSE /\ ret' = [NoCall EXCEPT !.op = "add_edge", !.item1 = item1,
                                     !.item2 = item2, !.raised = TRUE]
            /\ UNCHANGED <<vertices, neighbours, content>>

\* ------------------------------------------------------------- adjacent
\* Graph.adjacent: any(u.item == item1 for u in v2.neighbours)
AdjacentOf(item1, item2) ==
    IF item1 \in DOMAIN vertices /\ item2 \in DOMAIN vertices
    THEN \E u \in neighbours[vertices[item2]] : Item(u) = item1
    ELSE FALSE

Adjacent(item1, item2) ==
    /\ ret.op = "idle"
    /\ ret' = [NoCall EXCEPT !.op = "adjacent", !.item1 = item1, !.item2 = item2,
                             !.bool = AdjacentOf(item1, item2)]
    /\ UNCHANGED <<vertices, neighbours, content>>

\* ------------------------------------------------------------ connected
RECURSIVE CheckConnected(_, _, _, _)
RECURSIVE CheckConnectedLoop(_, _, _, _)

\* _Vertex.check_connected: what the call can return and the shared visited set
\* it leaves, over every order of "for u in self.neighbours".  A vertex
\* iterates its set at most once in a search (it is visited from then on),
\* so the order is chosen where the loop runs.
CheckConnected(self, target_item, visited, depth) ==
    IF depth > DepthCeiling
    THEN {[ret |-> FALSE, visited |-> visited]}
    ELSE IF Item(self) = target_item
    THEN {[ret |-> TRUE, visited |-> visited]}
    ELSE CheckConnectedLoop(neighbours[self], target_item, visited \cup {self}, depth)

\* The loop of check_connected over the neighbours todo not yet iterated.  A
\* neighbour already in visited is skipped wherever it comes in the order (the
\* visited set only grows), so the next neighbour to matter is any of those
\* not visited.
CheckConnectedLoop(todo, target_item, visited, depth) ==
    IF todo \ visited = {}
    THEN {[ret |-> FALSE, visited |-> visited]}
    ELSE UNION {
           UNION {
             IF r.ret
             THEN {r}
             ELSE CheckConnectedLoop(todo \ {u}, target_item, r.visited, depth)
             : r \in CheckConnected(u, target_item, visited, depth + 1) }
           : u \in todo \ visited }

\* Graph.connected: the values a call can return.
ConnectedOf(item1, item2) ==
    IF item1 \in DOMAIN vertices /\ item2 \in DOMAIN vertices
    THEN {r.ret : r \in CheckConnected(vertices[item1], item2, {}, 0)}
    ELSE {FALSE}

Connected(item1, item2) ==
    /\ ret.op = "idle"
    /\ \E b \in ConnectedOf(item1, item2) :
          ret' = [NoCall EXCEPT !.op = "connected", !.item1 = item1, !.item2 = item2,
                                !.bool = b]
    /\ UNCHANGED <<vertices, neighbours, content>>

\* --------------------------------------------------- connected_distance
RECURSIVE CheckConnectedDistanceStrict(_, _, _, _)
\* check_connected_distance with a slip: the budget is tested with d > 0.
CheckConnectedDistanceStrict(self, target_item, visited, d) ==
    IF Item(self) = target_item /\ d > 0 THEN TRUE
    ELSE IF d < 0 THEN FALSE
    ELSE LET new_visited == visited \cup {self}
         IN \E u \in neighbours[self] \ new_visited :
               CheckConnectedDistanceStrict(u, target_item, new_visited, d - 1)

RECURSIVE CheckConnectedDistance(_, _, _, _)
\* _Vertex.check_connected_distance: any(...) over the neighbours not in
\* new_visited, each branch with its own copy of the visited set.
CheckConnectedDistance(self, target_item, visited, d) ==
    IF Item(self) = target_item /\ d >= 0 THEN TRUE
    ELSE IF d < 0 THEN FALSE
    ELSE LET new_visited == visited \cup {self}
         IN \E u \in neighbours[self] \ new_visited :
               CheckConnectedDistance(u, target_item, new_visited, d - 1)

\* Graph.connected_distance
ConnectedDistanceOf(item1, item2, d) ==
    IF d > DistanceLimit THEN FALSE
    ELSE IF item1 \in DOMAIN vertices /\ item2 \in DOMAIN vertices
    THEN CheckConnectedDistance(vertices[item1], item2, {}, d)
    ELSE FALSE

ConnectedDistance(item1, item2, d) ==
    /\ ret.op = "idle"
    /\ ret' = [NoCall EXCEPT !.op = "connected_distance", !.item1 = item1,
                             !.item2 = item2, !.n = d,
                             !.bool = ConnectedDistanceOf(item1, item2, d)]
    /\ UNCHANGED <<vertices, neighbours, content>>

\* ------------------------------------------------------- connected_path
\* x in l, for a Python list l
InList(x, l) == \E i \in 1..Len(l) : l[i] = x

\* min(a, b)
Min(a, b) == IF a <= b THEN a ELSE b

\* The orders in which a set can be iterated.
RECURSIVE Perms(_)
Perms(S) ==
    IF S = {} THEN {<<>>}
    ELSE UNION { {<<x>> \o p : p \in Perms(S \ {x})} : x \in S }

\* One iteration order for every neighbour set.  A set that is not modified
\* is iterated in the same order every time, and check_connected_path
\* iterates a vertex's set once for each path that reaches the vertex.
RECURSIVE OrdersOver(_)
OrdersOver(D) ==
    IF D = {} THEN {<<>>}
    ELSE LET v == CHOOSE x \in D : TRUE
         IN {(v :> p) @@ o : p \in Perms(neighbours[v]), o \in OrdersOver(D \ {v})}

\* The objects within k edges of the objects S.
RECURSIVE Ball(_, _)
Ball(S, k) ==
    IF k <= 0 THEN S
    ELSE LET T == S \cup UNION {neighbours[o] : o \in S}
         IN IF T = S THEN S ELSE Ball(T, k - 1)

\* The iteration orders that matter to a traversal from the vertex of item1:
\* those of the objects it can reach.
OrdersFrom(item1) ==
    IF item1 \in DOMAIN vertices
    THEN OrdersOver(Ball({vertices[item1]}, Cardinality(Objects)))
    ELSE {<<>>}

\* count: the positions below min(len(path), len(last)) where last and path agree
Matching(path, last) ==
    Cardinality({i \in 1..Min(Len(path), Len(last)) : last[i] = path[i]})

\* The recording step with a slip: "path not in final_path" is not tested.
RecordAnyPath(item, target_item, path, final_path) ==
    IF item = target_item
    THEN IF Len(final_path) # 0
         THEN LET half == Len(path) \div 3
                  last == final_path[Len(final_path)]
              IN IF Matching(path, last) < Len(path) - half
                 THEN Append(final_path, path)
                 ELSE final_path
         ELSE Append(final_path, path)
    ELSE final_path

\* check_connected_path, the recording step: final_path after
\* "if self.item == target_item and path not in final_path: ..."
Record(item, target_item, path, final_path) ==
    IF item = target_item /\ ~InList(path, final_path)
    THEN IF Len(final_path) # 0
         THEN LET half == Len(path) \div 3
                  last == final_path[Len(final_path)]
              IN IF Matching(path, last) < Len(path) - half
                 THEN Append(final_path, path)
                 ELSE final_path
         ELSE Append(final_path, path)
    ELSE final_path

RECURSIVE CheckConnectedPath(_, _, _, _, _, _, _, _)
RECURSIVE CheckConnectedPathLoop(_, _, _, _, _, _, _, _)

\* _Vertex.check_connected_path under the iteration orders ord: final_path as
\* the call leaves it (visited and path are left as they were found: what is
\* appended on entry is popped before the return).  The call made by
\* connected_path finds path empty after the pop and returns final_path.
CheckConnectedPath(ord, self, target_item, visited, path, final_path, depth, max_depth) ==
    LET visited1 == Append(visited, Item(self))
        path1 == Append(path, Item(self))
    IN IF depth <= max_depth
       THEN CheckConnectedPathLoop(ord, self, target_item, visited1, path1,
                                   Record(Item(self), target_item, path1, final_path),
                                   depth, 1)
       ELSE final_path

\* "for i in self.neighbours", from the k-th neighbour on.  The recursive call
\* passes no max_depth: the callee runs with the default.
CheckConnectedPathLoop(ord, self, target_item, visited, path, final_path, depth, k) ==
    IF k > Len(ord[self])
    THEN final_path
    ELSE LET i == ord[self][k]
         IN CheckConnectedPathLoop(ord, self, target_item, visited, path,
                IF ~InList(Item(i), visited)
                THEN CheckConnectedPath(ord, i, target_item, visited, path, final_path,
                                        depth + 1, DefaultMaxDepth)
                ELSE final_path,
                depth, k + 1)

\* Graph.connected_path under the iteration orders ord
ConnectedPathOf(ord, item1, item2, max_depth) ==
    IF item1 \in DOMAIN vertices /\ item2 \in DOMAIN vertices
    THEN IF max_depth <= PathDepthLimit
         THEN [none |-> FALSE,
               paths |-> CheckConnectedPath(ord, vertices[item1], item2, <<>>, <<>>, <<>>,
                                            0, max_depth)]
         ELSE [none |-> FALSE,
               paths |-> CheckConnectedPath(ord, vertices[item1], item2, <<>>, <<>>, <<>>,
                                            0, DefaultMaxDepth)]
    ELSE [none |-> TRUE, paths |-> <<>>]

ConnectedPath(item1, item2, max_depth) ==
    /\ ret.op = "idle"
    /\ \E ord \in OrdersFrom(item1) :
          LET r == ConnectedPathOf(ord, item1, item2, max_depth)
          IN ret' = [NoCall EXCEPT !.op = "connected_path", !.item1 = item1,
                                   !.item2 = item2, !.n = max_depth,
                                   !.none = r.none, !.paths = r.paths]
    /\ UNCHANGED <<vertices, neighbours, content>>

\* -------------------------------------------------------- shortest_path
\* shortest_path with a slip: the loop over paths is missing.
FirstPath(r) ==
    IF r.none \/ r.paths = <<>>
    THEN [none |-> TRUE, path |-> <<>>]
    ELSE [none |-> FALSE, path |-> r.paths[1]]

RECURSIVE MinPathLoop(_, _, _)
\* "for item in paths: if len(item) < len(min_path): min_path = item"
MinPathLoop(paths, k, min_path) ==
    IF k > Len(paths) THEN min_path
    ELSE MinPathLoop(paths, k + 1,
                     IF Len(paths[k]) < Len(min_path) THEN paths[k] ELSE min_path)

\* Graph.shortest_path, given what its call of connected_path returned
ShortestPathOf(r) ==
    IF r.none \/ r.paths = <<>>
    THEN [none |-> TRUE, path |-> <<>>]
    ELSE [none |-> FALSE, path |-> MinPathLoop(r.paths, 1, r.paths[1])]

ShortestPath(item1, item2) ==
    /\ ret.op = "idle"
    /\ \E ord \in OrdersFrom(item1) :
          LET r == ConnectedPathOf(ord, item1, item2, DefaultMaxDepth)
              m == ShortestPathOf(r)
          IN ret' = [NoCall EXCEPT !.op = "shortest_path", !.item1 = item1,
                                   !.item2 = item2, !.none = m.none, !.path = m.path,
                                   !.pathsNone = r.none, !.paths = r.paths]
    /\ UNCHANGED <<vertices, neighbours, content>>

\* ------------------------------------------------------------ read_file
\* The lines read_file processes: f.readlines()[3:], then content[4:].
\* A line "a<TAB>b" is modelled by the pair <<a, b>> that strip, replace and
\* split("\t") make of it.
DataLines(lines) ==
    LET content1 == SubSeq(lines, 4, Len(lines))
    IN SubSeq(content1, 5, Len(content1))

\* read_file, one turn of "for item in content[4:]": add_vertex for each end
\* not yet a vertex, then add_edge.
ReadFileLine ==
    /\ content # <<>>
    /\ LET a == Head(content)[1]
           b == Head(content)[2]
           vertices1 == IF a \notin DOMAIN vertices
                        THEN (a :> NewVertex(a)) @@ vertices ELSE vertices
           neighbours1 == IF a \notin DOMAIN vertices
                          THEN (NewVertex(a) :> {}) @@ neighbours ELSE neighbours
           vertices2 == IF b \notin DOMAIN vertices1
                        THEN (b :> NewVertex(b)) @@ vertices1 ELSE vertices1
           neighbours2 == IF b \notin DOMAIN vertices1
                          THEN (NewVertex(b) :> {}) @@ neighbours1 ELSE neighbours1
           v1 == vertices2[a]
           v2 == vertices2[b]
       IN /\ vertices' = vertices2
          /\ neighbours' = [o \in DOMAIN neighbours2 |->
                              IF o = v1 /\ o = v2 THEN neighbours2[o] \cup {v1}
                              ELSE IF o = v1 THEN neighbours2[o] \cup {v2}
                              ELSE IF o = v2 THEN neighbours2[o] \cup {v1}
                              ELSE neighbours2[o]]
    /\ content' = Tail(content)
    /\ UNCHANGED ret

\* The caller is one sequential thread: it takes what a call returned before
\* it makes the next call.
Return ==
    /\ ret.op # "idle"
    /\ ret' = NoCall
    /\ UNCHANGED <<vertices, neighbours, content>>

\* ------------------------------------------------------- specifications
DInputs == (0..MaxD) \cup {DistanceLimit, DistanceLimit + 1}

MInputs == ((-1)..MaxM) \cup {PathDepthLimit, PathDepthLimit + 1}

Init ==
    /\ EmptyGraph
    /\ content = <<>>
    /\ ret = NoCall

\* The interface of Graph, called in any order with any arguments.  Items are
\* opaque: the program only compares and hashes them, so the items are taken
\* in the order of their first add_vertex (the next new item is the least
\* item never added).
Next ==
    \/ \E item \in Items :
          /\ item <= Cardinality(DOMAIN vertices) + 1
          /\ AddVertex(item)
    \/ \E item1 \in Items, item2 \in Items : AddEdge(item1, item2)
    \/ \E item1 \in Items, item2 \in Items : Adjacent(item1, item2)
    \/ \E item1 \in Items, item2 \in Items : Connected(item1, item2)
    \/ \E item1 \in Items, item2 \in Items, d \in DInputs :
          ConnectedDistance(item1, item2, d)
    \/ \E item1 \in Items, item2 \in Items, max_depth \in MInputs :
          ConnectedPath(item1, item2, max_depth)
    \/ \E item1 \in Items, item2 \in Items : ShortestPath(item1, item2)
    \/ Return

Spec == Init /\ [][Next]_vars

\* The building interface alone: add_vertex and add_edge, in any order with
\* any arguments, with no query between them.
NextBuild ==
    \/ \E item \in Items :
          /\ item <= Cardinality(DOMAIN vertices) + 1
          /\ AddVertex(item)
    \/ \E item1 \in Items, item2 \in Items : AddEdge(item1, item2)
    \/ Return

SpecBuild == Init /\ [][NextBuild]_vars

\* The items of the input files.
FileItems == 1..(ChainLen + 1)

\* A road file: seven heading lines, the chain 1 - 2 - ... - ChainLen + 1, and
\* with k > 0 the road from 1 to k.
RoadFile(k) ==
    [i \in 1..7 |-> <<0, 0>>] \o [i \in 1..ChainLen |-> <<i, i + 1>>]
    \o (IF k > 0 THEN << <<1, k>> >> ELSE <<>>)

InputFiles == {RoadFile(k) : k \in {0} \cup (3..(ChainLen + 1))}

InitFile ==
    /\ EmptyGraph
    /\ content \in {DataLines(f) : f \in InputFiles}
    /\ ret = NoCall

\* graph.read_file(filename), then connected on the graph read.
NextFile ==
    \/ ReadFileLine
    \/ /\ content = <<>>
       /\ \E item1 \in FileItems, item2 \in FileItems : Connected(item1, item2)
    \/ Return

SpecFile == InitFile /\ [][NextFile]_vars

\* ----------------------------------------------------------------- paths
\* Some path of at most k edges leads from the vertex of item1 to a vertex
\* holding item2.
PathWithin(item1, item2, k) ==
    /\ k >= 0
    /\ \E o \in Ball({vertices[item1]}, k) : Item(o) = item2

\* Some path of at most k edges that repeats no item leads from object o to a
\* vertex holding target, avoiding the items seen.
RECURSIVE SimplePathWithin(_, _, _, _)
SimplePathWithin(o, target, seen, k) ==
    /\ k >= 0
    /\ \/ Item(o) = target
       \/ \E u \in neighbours[o] :
             /\ Item(u) \notin seen \cup {Item(o)}
             /\ SimplePathWithin(u, target, seen \cup {Item(o)}, k - 1)

Present(item) == item \in DOMAIN vertices

\* The graph is the path 1 - 2 - 3 - 4 (A - B - C - D).
PathGraph4 ==
    /\ DOMAIN vertices = 1..4
    /\ Objects = {vertices[i] : i \in 1..4}
    /\ \A i \in 1..4 :
          neighbours[vertices[i]] = {vertices[j] : j \in {i - 1, i + 1} \cap (1..4)}

\* ---------------------------------------------------------------- claims
\* C1: adjacent is symmetric in every graph that add_vertex and add_edge can
\* build, add_vertex of an item already present included: adjacent(a, b)
\* returns what adjacent(b, a) returns.
C1_AdjacentSymmetric ==
    ret.op = "adjacent" => ret.bool = AdjacentOf(ret.item2, ret.item1)

\* C2: in a graph read from a file (no vertex added twice, no edge from a vertex
\* to itself) connected(a, b) on present items returns true iff some path of
\* at most 20 edges leads from a to b, whatever the iteration order.
C2_ConnectedIffPathWithinCeiling ==
    (ret.op = "connected" /\ Present(ret.item1) /\ Present(ret.item2))
        => (ret.bool <=> PathWithin(ret.item1, ret.item2, DepthCeiling))

C4_ShortestPath ==
    ret.op = "shortest_path" =>
        /\ ~ret.none =>
              /\ Len(ret.path) >= 1
              /\ ret.path[1] = ret.item1
              /\ ret.path[Len(ret.path)] = ret.item2
              /\ \A k \in 1..Len(ret.paths) : Len(ret.path) <= Len(ret.paths[k])
        /\ ret.none <=> (ret.pathsNone \/ ret.paths = <<>>)

\* C4, its case: shortest_path has returned a path that is not the first of
\* the list, which holds paths of different lengths.
C4_Witness ==
    /\ ret.op = "shortest_path"
    /\ ~ret.none
    /\ Len(ret.paths) >= 2
    /\ Len(ret.path) < Len(ret.paths[1])

\* C5: the list connected_path returns holds no sequence twice.
C5_NoDuplicatePaths ==
    ret.op = "connected_path" =>
        \A j \in 1..Len(ret.paths) : \A k \in 1..Len(ret.paths) :
            j # k => ret.paths[j] # ret.paths[k]

\* C5, its case: connected_path has returned several paths from a vertex that
\* has two neighbour objects holding the target item, so that the traversal
\* met the same sequence of items twice.
C5_Witness ==
    /\ ret.op = "connected_path"
    /\ Len(ret.paths) >= 2
    /\ Present(ret.item1)
    /\ \E o \in neighbours[vertices[ret.item1]] :
       \E u \in neighbours[vertices[ret.item1]] :
          o # u /\ Item(o) = ret.item2 /\ Item(u) = ret.item2

\* C6: connected_path(item1, item2, max_depth) with max_depth <= 20 returns
\* only paths of at most max_depth edges.
C6_PathsWithinMaxDepth ==
    (ret.op = "connected_path" /\ ~ret.none /\ ret.n <= PathDepthLimit)
        => \A k \in 1..Len(ret.paths) : Len(ret.paths[k]) - 1 <= ret.n

\* C7: add_edge with an item that is not a vertex raises ValueError and leaves
\* the vertex set and every neighbour set as they were.
C7_FailedAddEdgeChangesNothing ==
    [][(/\ ret.op = "idle"
        /\ ret'.op = "add_edge"
        /\ (~Present(ret'.item1) \/ ~Present(ret'.item2)))
          => (/\ ret'.raised
              /\ vertices' = vertices
              /\ neighbours' = neighbours)]_vars

\* C7, its case: add_edge has raised with one endpoint present, the other not.
C7_Witness ==
    /\ ret.op = "add_edge"
    /\ ret.raised
    /\ Present(ret.item1)
    /\ ~Present(ret.item2)

\* C8: add_edge with equal endpoints fails, and no vertex is ever in its own
\* neighbour set.
C8_NoSelfLoops ==
    /\ (ret.op = "add_edge" /\ ret.item1 = ret.item2) => ret.raised
    /\ \A o \in Objects : o \notin neighbours[o]

\* C9: what connected(a, b) returns, and the length of what shortest_path(a, b)
\* returns, do not depend on the order in which neighbour sets are iterated:
\* every run on the same graph returns what this run returned.
C9_OrderIndependent ==
    /\ ret.op = "connected" => ConnectedOf(ret.item1, ret.item2) = {ret.bool}
    /\ ret.op = "shortest_path" =>
          \A ord \in OrdersFrom(ret.item1) :
             LET m == ShortestPathOf(ConnectedPathOf(ord, ret.item1, ret.item2,
                                                     DefaultMaxDepth))
             IN m.none = ret.none /\ Len(m.path) = Len(ret.path)

\* The depth cap of a call connected_path(item1, item2, max_depth).
DepthCap(max_depth) ==
    IF max_depth <= PathDepthLimit THEN max_depth ELSE DefaultMaxDepth

\* C10: in the list connected_path returns every entry after the first agrees
\* with the entry before it in fewer than len - len // 3 positions, and the
\* list is non-empty iff some simple path to the target exists within the
\* depth cap.
C10_PruningRule ==
    (ret.op = "connected_path" /\ ~ret.none) =>
        /\ \A k \in 2..Len(ret.paths) :
              Matching(ret.paths[k], ret.paths[k - 1])
                  < Len(ret.paths[k]) - (Len(ret.paths[k]) \div 3)
        /\ ret.paths # <<>>
              <=> SimplePathWithin(vertices[ret.item1], ret.item2, {}, DepthCap(ret.n))

====
